---------------------------- MODULE Spec2Model ----------------------------
(***************************************************************************)
(* A model of the fixed-size worker pool of core_tests/src/threadpool.rs:  *)
(* ThreadPool::new, ThreadPool::execute, ThreadPool::shutdown, the Drop    *)
(* implementation and the loop each worker thread runs.                    *)
(*                                                                         *)
(* The pool is used by one owner (execute takes &self, shutdown takes      *)
(* &mut self, drop takes the value), whose position is pc.  The worker     *)
(* threads run concurrently with the owner and with each other.  The       *)
(* crossbeam unbounded channel is modelled by its contract: a FIFO buffer, *)
(* a count of live Sender endpoints and a count of live Receiver           *)
(* endpoints.  A task is an opaque closure: its body either returns or     *)
(* panics, which is chosen when the task is submitted.                     *)
(*                                                                         *)
(* The module also models, each under a specification of its own: the      *)
(* test test_execute_parallel_tasks_with_data of the pool (AuxSpec), the   *)
(* SpinLock (SpinSpec for the test's threads, SpinLiveSpec for threads     *)
(* that use it any number of times) and the Counter (CounterSpec) of       *)
(* core_tests/src/concurrency_tests.rs, and Command::parse (ParseSpec) and *)
(* process_command on a Db (DbSpec) of mini_redis_server.  A specification *)
(* leaves the variables of the other parts at their initial values.        *)
(***************************************************************************)
EXTENDS Integers, Sequences, FiniteSets

\* The largest num_threads given to ThreadPool::new.
MaxWorkers == 2
\* The number of execute calls made on one pool.
MaxTasks == 3
\* The number of explicit shutdown calls made on one pool.
MaxShutdowns == 2

WorkerIds == 1..MaxWorkers
TaskIds == 1..MaxTasks

VARIABLES
    pc,           \* the owner: "start", "idle", "joining" (inside shutdown's loop), "dropped"
    inDrop,       \* the shutdown in progress was called by Drop::drop
    num_threads,  \* the argument of ThreadPool::new
    sender,       \* self.sender is Some
    senders,      \* live Sender endpoints of the channel
    receivers,    \* live Receiver endpoints of the channel
    workers,      \* self.workers: the JoinHandles, in spawn order
    queue,        \* the tasks buffered in the channel, oldest first
    wstate,       \* each worker thread: "unspawned", "recv", "run", "exited", "panicked"
    wjob,         \* the task a worker holds (0: none)
    joined,       \* the workers whose JoinHandle::join has returned
    tstate,       \* each task: "new", "queued", "running", "done", "panicked", "rejected", "ignored",
                  \* "dropped" (destroyed in the buffer, never run)
    panics,       \* whether the body of a submitted task panics
    starts,       \* how many times each task's body was entered
    nextTask,     \* the next task to be submitted
    lastOp,       \* the call the owner completed last: "new", "execute", "shutdown", "drop";
                  \* "none" before new and while the owner is inside shutdown
    lastOutcome,  \* how that call ended: "returned", "panicked"; "none" with lastOp
    shutdownLog   \* how each completed shutdown (explicit or from drop) ended, oldest first

\* test_execute_parallel_tasks_with_data
VARIABLES
    tpc,          \* the test's main thread: "off", "submit", "recv", "asserted"
    rxGot,        \* how many times rx has yielded the value of each task
    txSent        \* how many times each task's closure has sent its value

\* SpinLock and test_concurrency_spinlock
VARIABLES
    locked,       \* SpinLock.locked
    spc,          \* each thread: "lock", "crit", "unlock", "done"
    siter,        \* the iterations each thread has completed
    scount        \* the counter the threads add to inside the critical section

\* Counter and test_concurrency_counter
VARIABLES
    cvalue,       \* Counter.value
    cpc,          \* each thread: "load", "cas", "done"
    ccur,         \* increment's local variable current
    cdone         \* the increment calls each thread has completed

\* mini_redis_server: Command::parse, Db, process_command
VARIABLES
    rpc,          \* the caller of parse: "idle", "done" (a call has returned)
    words,        \* the tokens the input was built from
    input,        \* the input string, a sequence of characters
    parsed,       \* the Command parse returned
    db,           \* Db.inner: the HashMap, a function on the keys present
    readers,      \* Db.inner: the callers that hold the read lock
    writer,       \* Db.inner: the caller that holds the write lock, or 0
    waiters,      \* Db.inner: the callers queued at the lock, first come first
    callPc,       \* each caller of process_command: "idle", "called" (not
                  \* at the lock yet), "wait" (queued at the lock), "hold"
                  \* (it has the lock), "done" (returned)
    command,      \* process_command's command, of each caller
    response,     \* the String process_command returned to each caller
    ncalls,       \* the calls of process_command made so far
    sets,         \* history: the SET calls that may still be the most recent
                  \* on their key: who made it, key, value, "open" or "returned"
    setKeys,      \* history: the keys on which a SET has returned
    before,       \* history: the SETs in sets on its key that had returned
                  \* when the SET a caller is in was made
    allowed       \* history: what the GET a caller is in may return

poolVars == <<pc, inDrop, num_threads, sender, senders, receivers, workers,
              queue, wstate, wjob, joined, tstate, panics, starts, nextTask,
              lastOp, lastOutcome, shutdownLog>>
auxVars == <<tpc, rxGot, txSent>>
spinVars == <<locked, spc, siter, scount>>
ctrVars == <<cvalue, cpc, ccur, cdone>>
parseVars == <<rpc, words, input, parsed>>
lockVars == <<readers, writer, waiters>>
histVars == <<sets, setKeys, before, allowed>>
dbVars == <<db, lockVars, callPc, command, response, ncalls, histVars>>
redisVars == <<parseVars, dbVars>>

\* What the pool's operations leave alone.
nonPoolVars == <<auxVars, spinVars, ctrVars, redisVars>>

vars == <<poolVars, auxVars, spinVars, ctrVars, redisVars>>

----------------------------------------------------------------------------
(* The channel's contract, as the pool uses it. *)

\* Sender::send on an unbounded channel fails only when every Receiver is gone.
SendOk(r) == r > 0

\* A channel of capacity 1, whose send waits for room.
SendReadyBounded(q) == Len(q) < 1

\* channel::unbounded(): send never waits for room in the buffer.
SendReady(q) == TRUE

\* A recv that wakes its caller only when more than one job is buffered.
RecvReadyBatch(q) == Len(q) >= 2

\* Receiver::recv returns Ok(job) when a job is buffered.
RecvReady(q) == q /= <<>>

\* A recv that reports closure as soon as every Sender is gone, buffered or not.
RecvClosedEarly(q, s) == s = 0

\* Receiver::recv returns Err once the buffer is empty and every Sender is gone.
RecvClosed(q, s) == q = <<>> /\ s = 0

\* A recv that hands out the oldest job and leaves it buffered.
DequeuePeek(q) == q

\* The buffer after a successful recv.
Dequeue(q) == Tail(q)

\* The buffer after a Receiver is dropped and r are left: the thread that
\* drops the last Receiver discards what is buffered, whether or not a Sender
\* is still alive.
QueueAfterRelease(q, r) == IF r = 0 THEN <<>> ELSE q

\* The jobs discarded with the buffer are destroyed without having run.
TasksAfterRelease(ts, q, r) ==
    [t \in DOMAIN ts |->
        IF r = 0 /\ (\E i \in DOMAIN q : q[i] = t) THEN "dropped" ELSE ts[t]]

----------------------------------------------------------------------------
(* ThreadPool::new.  PoolInit(T) is the state on entry, for a run that will *)
(* submit the tasks T.                                                      *)

\* One worker thread per index of 0..num_threads, each blocked in recv.
SpawnWorkers(n) == [w \in WorkerIds |-> IF w <= n THEN "recv" ELSE "unspawned"]

\* The JoinHandles collected into self.workers.
WorkerHandles(n) == [i \in 1..n |-> i]

\* A constructor that keeps the original receiver alive besides the clones.
ReceiversAfterNewKept(n) == 1 + n

\* Each worker holds a clone; the original receiver is dropped when new returns.
ReceiversAfterNew(n) == (1 + n) - 1

PoolInit(T) ==
    /\ pc = "start"
    /\ inDrop = FALSE
    /\ num_threads = 0
    /\ sender = FALSE
    /\ senders = 0
    /\ receivers = 0
    /\ workers = <<>>
    /\ queue = <<>>
    /\ wstate = [w \in WorkerIds |-> "unspawned"]
    /\ wjob = [w \in WorkerIds |-> 0]
    /\ joined = {}
    /\ tstate = [t \in T |-> "new"]
    /\ panics = [t \in T |-> FALSE]
    /\ starts = [t \in T |-> 0]
    /\ nextTask = 1
    /\ lastOp = "none"
    /\ lastOutcome = "none"
    /\ shutdownLog = <<>>

New(n) ==
    /\ pc = "start"
    /\ pc' = "idle"
    /\ num_threads' = n
    /\ sender' = TRUE
    /\ senders' = 1
    /\ receivers' = ReceiversAfterNew(n)
    /\ workers' = WorkerHandles(n)
    /\ wstate' = SpawnWorkers(n)
    /\ lastOp' = "new"
    /\ lastOutcome' = "returned"
    /\ UNCHANGED <<inDrop, queue, wjob, joined, tstate, panics, starts,
                   nextTask, shutdownLog>>
    /\ UNCHANGED nonPoolVars

----------------------------------------------------------------------------
(* ThreadPool::execute *)

\* An execute that discards the result of send instead of calling expect.
ExecuteOutcomeLenient(s, r) == "returned"

\* How the call ends: unit is returned when the sender is None or the send
\* succeeds; expect panics when the send fails.
ExecuteOutcome(s, r) ==
    IF s /\ ~SendOk(r) THEN "panicked" ELSE "returned"

\* What becomes of the task.
ExecuteTask(s, r) ==
    IF ~s THEN "ignored" ELSE IF SendOk(r) THEN "queued" ELSE "rejected"

\* An execute that sends whether or not the pool still holds its sender.
ExecuteQueueAlways(s, r, q, t) == Append(q, t)

\* The buffer after the call.
ExecuteQueue(s, r, q, t) ==
    IF s /\ SendOk(r) THEN Append(q, t) ELSE q

Execute(p) ==
    /\ pc = "idle"
    /\ nextTask \in DOMAIN tstate
    /\ sender => SendReady(queue)
    /\ queue' = ExecuteQueue(sender, receivers, queue, nextTask)
    /\ tstate' = [tstate EXCEPT ![nextTask] = ExecuteTask(sender, receivers)]
    /\ panics' = [panics EXCEPT ![nextTask] = p]
    /\ nextTask' = nextTask + 1
    /\ lastOp' = "execute"
    /\ lastOutcome' = ExecuteOutcome(sender, receivers)
    /\ UNCHANGED <<pc, inDrop, num_threads, sender, senders, receivers,
                   workers, wstate, wjob, joined, starts, shutdownLog>>
    /\ UNCHANGED nonPoolVars

----------------------------------------------------------------------------
(* The worker loop: while let Ok(job) = receiver.recv() { job(); } *)

\* A worker that goes back to recv while the job it received is still running.
AfterRecvDetached == "recv"

\* A worker that received a job runs it before it receives again.
AfterRecv == "run"

WorkerRecv(w) ==
    /\ wstate[w] = "recv"
    /\ RecvReady(queue)
    /\ wstate' = [wstate EXCEPT ![w] = AfterRecv]
    /\ wjob' = [wjob EXCEPT ![w] = Head(queue)]
    /\ queue' = Dequeue(queue)
    /\ tstate' = [tstate EXCEPT ![Head(queue)] = "running"]
    /\ starts' = [starts EXCEPT ![Head(queue)] = @ + 1]
    /\ UNCHANGED <<pc, inDrop, num_threads, sender, senders, receivers,
                   workers, joined, panics, nextTask, lastOp, lastOutcome,
                   shutdownLog>>
    /\ UNCHANGED nonPoolVars

\* A worker thread that ends after the first job it ran.
AfterFinishOnce == "exited"

\* job() returned: while let goes round to receiver.recv().
AfterFinish == "recv"

\* job() returns: the worker loops back to recv.
WorkerFinish(w) ==
    /\ wstate[w] = "run"
    /\ ~panics[wjob[w]]
    /\ wstate' = [wstate EXCEPT ![w] = AfterFinish]
    /\ wjob' = [wjob EXCEPT ![w] = 0]
    /\ tstate' = [tstate EXCEPT ![wjob[w]] = "done"]
    /\ UNCHANGED <<pc, inDrop, num_threads, sender, senders, receivers,
                   workers, queue, joined, panics, starts, nextTask, lastOp,
                   lastOutcome, shutdownLog>>
    /\ UNCHANGED nonPoolVars

\* A worker loop that catches the panic of job() and receives again.
AfterPanicCaught == "recv"

\* Nothing catches the panic of job(): the worker thread ends.
AfterPanic == "panicked"

\* job() panics: the thread unwinds and its receiver is dropped.
WorkerPanic(w) ==
    /\ wstate[w] = "run"
    /\ panics[wjob[w]]
    /\ wstate' = [wstate EXCEPT ![w] = AfterPanic]
    /\ wjob' = [wjob EXCEPT ![w] = 0]
    /\ receivers' = receivers - 1
    /\ queue' = QueueAfterRelease(queue, receivers - 1)
    /\ tstate' = TasksAfterRelease([tstate EXCEPT ![wjob[w]] = "panicked"],
                                   queue, receivers - 1)
    /\ UNCHANGED <<pc, inDrop, num_threads, sender, senders, workers,
                   joined, panics, starts, nextTask, lastOp, lastOutcome,
                   shutdownLog>>
    /\ UNCHANGED nonPoolVars

\* recv returns Err: the loop ends, the thread returns and drops its receiver.
WorkerExit(w) ==
    /\ wstate[w] = "recv"
    /\ RecvClosed(queue, senders)
    /\ wstate' = [wstate EXCEPT ![w] = "exited"]
    /\ receivers' = receivers - 1
    /\ UNCHANGED <<pc, inDrop, num_threads, sender, senders, workers, queue,
                   wjob, joined, tstate, panics, starts, nextTask, lastOp,
                   lastOutcome, shutdownLog>>
    /\ UNCHANGED nonPoolVars

WorkerStep(w) ==
    \/ WorkerRecv(w)
    \/ WorkerFinish(w)
    \/ WorkerPanic(w)
    \/ WorkerExit(w)

----------------------------------------------------------------------------
(* ThreadPool::shutdown and Drop::drop *)

\* A shutdown that reads the sender and leaves it in the field.
TakeSenderKept(s) == s

\* self.sender.take(): the field is None afterwards.
TakeSender(s) == FALSE

\* A shutdown whose taken Sender stays alive (leaked, or a clone is outstanding).
SendersAfterTakeLeak(s, n) == n

\* The Sender taken out of the field is dropped.
SendersAfterTake(s, n) == IF s THEN n - 1 ELSE n

\* JoinHandle::join blocks until the thread has ended.
JoinReady(ws) == ws \in {"exited", "panicked"}

\* A join whose result is discarded instead of unwrapped.
JoinUnwrapIgnored(ws) == TRUE

\* join() is Ok when the thread returned, Err when it panicked; unwrap panics on Err.
JoinUnwrapOk(ws) == ws = "exited"

\* The call that ends: shutdown itself, or the drop that called it.
EndedOp(d) == IF d THEN "drop" ELSE "shutdown"

\* Where the owner is afterwards: a dropped pool is gone.
EndedPc(d) == IF d THEN "dropped" ELSE "idle"

\* d: the call comes from Drop::drop.
ShutdownBegin(d) ==
    /\ pc = "idle"
    /\ d \/ Len(shutdownLog) < MaxShutdowns
    /\ pc' = "joining"
    /\ inDrop' = d
    /\ sender' = TakeSender(sender)
    /\ senders' = SendersAfterTake(sender, senders)
    /\ lastOp' = "none"
    /\ lastOutcome' = "none"
    /\ UNCHANGED <<num_threads, receivers, workers, queue, wstate, wjob,
                   joined, tstate, panics, starts, nextTask, shutdownLog>>
    /\ UNCHANGED nonPoolVars

\* One iteration of for worker in self.workers.drain(..) whose join is Ok.
JoinOk ==
    /\ pc = "joining"
    /\ workers /= <<>>
    /\ JoinReady(wstate[Head(workers)])
    /\ JoinUnwrapOk(wstate[Head(workers)])
    /\ workers' = Tail(workers)
    /\ joined' = joined \cup {Head(workers)}
    /\ UNCHANGED <<pc, inDrop, num_threads, sender, senders, receivers,
                   queue, wstate, wjob, tstate, panics, starts, nextTask,
                   lastOp, lastOutcome, shutdownLog>>
    /\ UNCHANGED nonPoolVars

\* The iteration whose join is Err: unwrap panics, and the unwinding drops the
\* Drain, which drops the handles not yet joined and leaves the Vec empty.
JoinPanic ==
    /\ pc = "joining"
    /\ workers /= <<>>
    /\ JoinReady(wstate[Head(workers)])
    /\ ~JoinUnwrapOk(wstate[Head(workers)])
    /\ workers' = <<>>
    /\ joined' = joined \cup {Head(workers)}
    /\ pc' = EndedPc(inDrop)
    /\ inDrop' = FALSE
    /\ lastOp' = EndedOp(inDrop)
    /\ lastOutcome' = "panicked"
    /\ shutdownLog' = Append(shutdownLog, "panicked")
    /\ UNCHANGED <<num_threads, sender, senders, receivers, queue, wstate,
                   wjob, tstate, panics, starts, nextTask>>
    /\ UNCHANGED nonPoolVars

\* The loop is over: shutdown returns.
ShutdownReturn ==
    /\ pc = "joining"
    /\ workers = <<>>
    /\ pc' = EndedPc(inDrop)
    /\ inDrop' = FALSE
    /\ lastOp' = EndedOp(inDrop)
    /\ lastOutcome' = "returned"
    /\ shutdownLog' = Append(shutdownLog, "returned")
    /\ UNCHANGED <<num_threads, sender, senders, receivers, workers, queue,
                   wstate, wjob, joined, tstate, panics, starts, nextTask>>
    /\ UNCHANGED nonPoolVars

ShutdownStep == JoinOk \/ JoinPanic \/ ShutdownReturn

----------------------------------------------------------------------------
(* The initial states of the other parts *)

\* The threads of test_concurrency_spinlock (4 in the test).
SpinThreads == 3
\* The iterations of each (10000 in the test).
SpinIters == 2
\* The threads of test_concurrency_counter (4 in the test).
CtrThreads == 3
\* The increment calls of each (10000 in the test).
CtrIters == 2
\* The tasks that call process_command on one Db.
DbCallers == 2
\* The calls they make, all together.
MaxCalls == 3

CallerIds == 1..DbCallers
SpinThreadIds == 1..SpinThreads
CtrThreadIds == 1..CtrThreads

\* No auxiliary channel.
AuxOff ==
    /\ tpc = "off"
    /\ rxGot = <<>>
    /\ txSent = <<>>

\* SpinLock::new(), the counter at 0, every thread about to call lock().
SpinInit ==
    /\ locked = FALSE
    /\ spc = [t \in SpinThreadIds |-> "lock"]
    /\ siter = [t \in SpinThreadIds |-> 0]
    /\ scount = 0

\* Counter::new(), every thread about to call increment().
CounterInit ==
    /\ cvalue = 0
    /\ cpc = [t \in CtrThreadIds |-> "load"]
    /\ ccur = [t \in CtrThreadIds |-> 0]
    /\ cdone = [t \in CtrThreadIds |-> 0]

\* No Command: parse has not been called.
NoCommand == [type |-> "None", key |-> <<>>, value |-> <<>>]

\* Db::new(): an empty map; no call made yet.
RedisInit ==
    /\ rpc = "idle"
    /\ words = <<>>
    /\ input = <<>>
    /\ parsed = NoCommand
    /\ db = <<>>
    /\ readers = {}
    /\ writer = 0
    /\ waiters = <<>>
    /\ callPc = [c \in CallerIds |-> "idle"]
    /\ command = [c \in CallerIds |-> NoCommand]
    /\ response = [c \in CallerIds |-> <<>>]
    /\ ncalls = 0
    /\ sets = {}
    /\ setKeys = {}
    /\ before = [c \in CallerIds |-> {}]
    /\ allowed = [c \in CallerIds |-> {}]

----------------------------------------------------------------------------

Next ==
    \/ \E n \in 0..MaxWorkers : New(n)
    \/ \E p \in BOOLEAN : Execute(p)
    \/ \E d \in BOOLEAN : ShutdownBegin(d)
    \/ JoinOk
    \/ JoinPanic
    \/ ShutdownReturn
    \/ \E w \in WorkerIds : WorkerRecv(w)
    \/ \E w \in WorkerIds : WorkerFinish(w)
    \/ \E w \in WorkerIds : WorkerPanic(w)
    \/ \E w \in WorkerIds : WorkerExit(w)

Init ==
    /\ PoolInit(TaskIds)
    /\ AuxOff
    /\ SpinInit
    /\ CounterInit
    /\ RedisInit

Spec == Init /\ [][Next]_vars

\* The operating system schedules every thread that can run: each worker thread
\* and the owner inside shutdown.  The owner is free never to call anything.
Fairness ==
    /\ \A w \in WorkerIds : WF_vars(WorkerStep(w))
    /\ WF_vars(ShutdownStep)

LiveSpec == Init /\ [][Next]_vars /\ Fairness

----------------------------------------------------------------------------
(* Vocabulary of the properties *)

\* The task was put into the queue by execute.
Enqueued(t) == tstate[t] \in {"queued", "running", "done", "panicked", "dropped"}

\* The spec's two worker states.
Running(w) == wstate[w] \in {"recv", "run"}
Terminated(w) == wstate[w] \in {"exited", "panicked"}

Spawned == 1..num_threads

\* Tasks whose body is executing now.
Executing == {t \in TaskIds : tstate[t] = "running"}

TypeOK ==
    /\ pc \in {"start", "idle", "joining", "dropped"}
    /\ inDrop \in BOOLEAN
    /\ num_threads \in 0..MaxWorkers
    /\ sender \in BOOLEAN
    /\ senders \in 0..1
    /\ receivers \in 0..MaxWorkers
    /\ queue \in Seq(TaskIds)
    /\ wstate \in [WorkerIds -> {"unspawned", "recv", "run", "exited", "panicked"}]
    /\ wjob \in [WorkerIds -> 0..MaxTasks]
    /\ joined \subseteq WorkerIds
    /\ tstate \in [TaskIds -> {"new", "queued", "running", "done", "panicked",
                               "rejected", "ignored", "dropped"}]
    /\ panics \in [TaskIds -> BOOLEAN]
    /\ nextTask \in 1..(MaxTasks + 1)
    /\ lastOp \in {"none", "new", "execute", "shutdown", "drop"}
    /\ lastOutcome \in {"none", "returned", "panicked"}

----------------------------------------------------------------------------
(* Properties of the pool *)

\* Some completed shutdown ended by returning.
SomeShutdownReturned ==
    \E i \in DOMAIN shutdownLog : shutdownLog[i] = "returned"

\* No completed shutdown ended by panicking.
NoShutdownPanicked ==
    \A i \in DOMAIN shutdownLog : shutdownLog[i] = "returned"

\* Every task execute put into the queue has run to completion.
AllEnqueuedDone ==
    /\ queue = <<>>
    /\ \A t \in TaskIds : Enqueued(t) => tstate[t] = "done"
    /\ {t \in TaskIds : starts[t] >= 1} = {t \in TaskIds : Enqueued(t)}

\* C1: Drain on shutdown.  With at least one worker, when a shutdown call that
\* follows only execute calls (no earlier shutdown ended by panicking) returns,
\* the queue is empty, every task execute enqueued has run to completion, and
\* the set of tasks that ran is the set that was enqueued.
C1_DrainOnShutdown ==
    (/\ num_threads >= 1
     /\ lastOp = "shutdown"
     /\ lastOutcome = "returned"
     /\ NoShutdownPanicked)
    => AllEnqueuedDone

\* A first shutdown has returned on a pool of two workers after every task of
\* the run was enqueued and executed.
C1_Witness ==
    /\ num_threads >= 2
    /\ lastOp = "shutdown"
    /\ lastOutcome = "returned"
    /\ shutdownLog = <<"returned">>
    /\ \A t \in TaskIds : tstate[t] = "done"

\* C2: Exactly-once execution.  In every state each task's body has been
\* entered at most once, a task is held by at most one worker, the queue holds
\* no task twice, and a task that was dequeued is no longer in the queue.
C2_ExactlyOnce ==
    /\ \A t \in TaskIds : starts[t] <= 1
    /\ \A t \in TaskIds : Cardinality({w \in WorkerIds : wjob[w] = t}) <= 1
    /\ \A i, j \in DOMAIN queue : queue[i] = queue[j] => i = j
    /\ \A i \in DOMAIN queue : starts[queue[i]] = 0

\* Two workers are each running a task of their own while another task waits.
C2_Witness ==
    /\ \E w1, w2 \in WorkerIds :
          /\ w1 /= w2
          /\ wstate[w1] = "run"
          /\ wstate[w2] = "run"
          /\ wjob[w1] /= wjob[w2]
    /\ queue /= <<>>

\* C3: Concurrency bound.  In every state the number of tasks whose body is
\* executing is at most num_threads, and each of them is the one task held by
\* a worker that is running it.
C3_ConcurrencyBound ==
    /\ Cardinality(Executing) <= num_threads
    /\ \A t \in Executing : \E w \in Spawned : wstate[w] = "run" /\ wjob[w] = t

\* Every worker of a pool of two is busy and a further task is queued.
C3_Witness ==
    /\ num_threads >= 2
    /\ Cardinality(Executing) = num_threads
    /\ queue /= <<>>

\* C4: Submit after shutdown is reported.  On a pool built with at least one
\* worker, an execute call made once shutdown has begun (the sender is None)
\* ends by signalling PoolClosed to its caller.
C4_SubmitAfterShutdownReported ==
    (num_threads >= 1 /\ lastOp = "execute" /\ ~sender)
    => lastOutcome = "PoolClosed"

\* C5: Shutdown is idempotent.  Once one shutdown has returned, the pool holds
\* no sender and no worker handle in every later state; a later shutdown (or
\* the one drop runs) finds its loop empty, so it can return at once, and no
\* shutdown completed after one that returned ends by panicking.
C5_ShutdownIdempotent ==
    SomeShutdownReturned =>
        /\ sender = FALSE
        /\ workers = <<>>
        /\ pc = "joining" => ENABLED ShutdownReturn
        /\ \A i, j \in DOMAIN shutdownLog :
              (i < j /\ shutdownLog[i] = "returned") => shutdownLog[j] = "returned"

\* A pool with a worker was shut down, and then dropped; both calls ended.
C5_Witness ==
    /\ num_threads >= 1
    /\ Len(shutdownLog) >= 2
    /\ shutdownLog[1] = "returned"
    /\ lastOp = "drop"
    /\ \E t \in TaskIds : tstate[t] = "done"

\* C6: Implicit teardown.  When a pool is dropped with no explicit shutdown
\* call before, and the drop returns, the sender was released, every worker
\* has been joined and is Terminated (none is blocked in recv), and every task
\* enqueued before the drop has run to completion.
C6_ImplicitTeardown ==
    (/\ lastOp = "drop"
     /\ lastOutcome = "returned"
     /\ Len(shutdownLog) = 1)
    => /\ senders = 0
       /\ \A w \in Spawned : Terminated(w) /\ w \in joined
       /\ AllEnqueuedDone

\* A pool of two workers was dropped, without a shutdown call, after tasks
\* were enqueued; the drop returned.
C6_Witness ==
    /\ num_threads >= 2
    /\ lastOp = "drop"
    /\ lastOutcome = "returned"
    /\ shutdownLog = <<"returned">>
    /\ Cardinality({t \in TaskIds : tstate[t] = "done"}) >= 2

\* C7: Shutdown has no failure outcome.  Every completed shutdown call,
\* whatever the tasks did, ended by returning.
C7_ShutdownNeverFails ==
    \A i \in DOMAIN shutdownLog : shutdownLog[i] = "returned"

\* No enqueued task has a body that panics.
NoTaskFails == \A t \in TaskIds : Enqueued(t) => ~panics[t]

\* C8: Shutdown terminates.  Under fair scheduling of the worker threads and
\* of the owner inside shutdown, a shutdown that has begun on a pool none of
\* whose tasks fails eventually returns, with every worker Terminated.
C8_ShutdownTerminates ==
    (pc = "joining" /\ NoTaskFails)
    ~> (/\ pc /= "joining"
        /\ lastOp \in {"shutdown", "drop"}
        /\ lastOutcome = "returned"
        /\ \A w \in Spawned : Terminated(w))

\* A shutdown returned on a pool of two workers to which no task was ever
\* submitted: the closure alone released both workers.
C8_Witness ==
    /\ num_threads >= 2
    /\ lastOp = "shutdown"
    /\ lastOutcome = "returned"
    /\ nextTask = 1
    /\ \A w \in Spawned : wstate[w] = "exited"

\* C9: Construction.  New can be taken for every num_threads >= 1, and when it
\* has returned (and the owner has called nothing else yet) the pool holds num_threads distinct worker handles, every
\* worker is Running (blocked in recv), there is one receiver per worker and
\* no other, the queue is empty, and the pool's sender is the only one.
C9_Construction ==
    /\ pc = "start" => \A n \in 1..MaxWorkers : ENABLED New(n)
    /\ (lastOp = "new" /\ pc = "idle" /\ num_threads >= 1) =>
          /\ lastOutcome = "returned"
          /\ Len(workers) = num_threads
          /\ {workers[i] : i \in DOMAIN workers} = Spawned
          /\ \A w \in Spawned : wstate[w] = "recv"
          /\ \A w \in WorkerIds \ Spawned : wstate[w] = "unspawned"
          /\ receivers = num_threads
          /\ queue = <<>>
          /\ sender = TRUE
          /\ senders = 1

\* New(2) has just returned.
C9_Witness ==
    /\ lastOp = "new"
    /\ pc = "idle"
    /\ num_threads = 2
    /\ Len(workers) = 2

\* C10: QueueClosed is unreachable while the pool is alive.  While a pool
\* built with at least one worker has not begun shutdown, a receiver exists
\* and no execute call has ended by the send failing.
C10_QueueClosedUnreachable ==
    (pc /= "start" /\ num_threads >= 1 /\ sender) =>
        /\ receivers >= 1
        /\ ~(lastOp = "execute" /\ lastOutcome = "panicked")

\* The task is in the queue.
InQueue(t) == \E i \in DOMAIN queue : queue[i] = t

\* The task's body has been entered.
Started(t) == tstate[t] \in {"running", "done", "panicked"}

\* The workers that have not ended.
LiveWorkers == {w \in Spawned : Running(w)}

\* C11: New work is refused after shutdown.  An execute call made once the
\* sender is None changes neither the queue nor what any worker holds nor
\* which bodies were entered, and the task it was given is never in the queue,
\* never held by a worker and never started.
C11_RefusedAfterShutdown ==
    /\ [](\A t \in TaskIds : tstate[t] = "ignored" =>
             /\ starts[t] = 0
             /\ ~InQueue(t)
             /\ \A w \in WorkerIds : wjob[w] /= t)
    /\ [][(~sender /\ nextTask' = nextTask + 1) =>
             /\ queue' = queue
             /\ starts' = starts
             /\ wjob' = wjob
             /\ tstate'[nextTask] = "ignored"
             /\ \A t \in TaskIds \ {nextTask} : tstate'[t] = tstate[t]]_vars

\* After a shutdown that ran a task, execute was called again on a pool with
\* a worker.
C11_Witness ==
    /\ num_threads >= 1
    /\ lastOp = "execute"
    /\ ~sender
    /\ tstate[nextTask - 1] = "ignored"
    /\ \E t \in TaskIds : tstate[t] = "done"

\* No task that is running, or queued ahead of t, has a body that panics.
NoFailureAhead(t) ==
    /\ \A w \in Spawned : wstate[w] = "run" => ~panics[wjob[w]]
    /\ \A i, j \in DOMAIN queue : (i < j /\ queue[j] = t) => ~panics[queue[i]]

\* C12: Eventual delivery.  Under fair scheduling, a queued task of a pool
\* that has a live worker, where the tasks running or queued ahead of it
\* return, is eventually received and its body entered, whether or not
\* shutdown is ever called; no task is entered twice, and a worker blocked in
\* recv can receive whenever the queue holds a task.
C12_EventualDelivery ==
    /\ [](\A t \in TaskIds : starts[t] <= 1)
    /\ [](\A w \in Spawned :
             (wstate[w] = "recv" /\ queue /= <<>>) => ENABLED WorkerRecv(w))
    /\ \A t \in TaskIds :
          (tstate[t] = "queued" /\ LiveWorkers /= {} /\ NoFailureAhead(t))
          ~> Started(t)

\* Every task of the run was executed on a pool that was never shut down.
C12_Witness ==
    /\ sender
    /\ pc = "idle"
    /\ num_threads >= 1
    /\ \A t \in TaskIds : tstate[t] = "done"

\* C13: Failure isolation.  On a pool built with at least one worker, no
\* enqueued task is lost, whatever bodies failed before: none is destroyed in
\* the buffer without having run, and a queued task always has a live worker
\* left that can receive it; and no task is entered twice.
C13_FailureIsolation ==
    /\ \A t \in TaskIds : starts[t] <= 1
    /\ \A t \in TaskIds : num_threads >= 1 => tstate[t] /= "dropped"
    /\ \A t \in TaskIds :
          (num_threads >= 1 /\ tstate[t] = "queued") => LiveWorkers /= {}

\* C14: Worker death on task failure.  The step in which a body panics ends
\* exactly the worker that ran it and lowers the number of live workers by
\* one; a worker that ended this way stays ended and holds no task; and the
\* workers that died are as many as the tasks that failed.
C14_WorkerDeath ==
    /\ [](Cardinality({w \in Spawned : wstate[w] = "panicked"})
            = Cardinality({t \in TaskIds : tstate[t] = "panicked"}))
    /\ [][\A w \in WorkerIds :
             /\ wstate[w] = "panicked" =>
                   (wstate'[w] = "panicked" /\ wjob'[w] = 0)
             /\ (wstate[w] = "run" /\ tstate'[wjob[w]] = "panicked") =>
                   /\ wstate'[w] = "panicked"
                   /\ \A v \in WorkerIds \ {w} : wstate'[v] = wstate[v]
                   /\ Cardinality(LiveWorkers') = Cardinality(LiveWorkers) - 1]_vars

\* One worker of two died from a failed task and the other went on to run a
\* later task to completion.
C14_Witness ==
    /\ num_threads >= 2
    /\ \E w \in Spawned : wstate[w] = "panicked"
    /\ \E w \in Spawned : Running(w)
    /\ \E t, u \in TaskIds : t < u /\ tstate[t] = "panicked" /\ tstate[u] = "done"

----------------------------------------------------------------------------
(* test_execute_parallel_tasks_with_data: a pool of 2 workers, an auxiliary *)
(* channel (tx, rx), one task per i of 0..=10 that owns a clone of tx and   *)
(* sends i, then drop(tx) and rx.iter().sum().  The pool is the one above;  *)
(* a task's closure is two steps of the worker that runs it: tx.send(i),    *)
(* after which rx can yield i, and its return, where its clone of tx is     *)
(* dropped.  A task that is queued or running still owns its clone.  The    *)
(* pool is dropped when the test ends.                                      *)

\* ThreadPool::new(2)
AuxWorkers == 2
\* for i in 0..=10
AuxLast == 10

AuxTaskIds == 1..(AuxLast + 1)

\* The i the task sends.
TaskIndex(t) == t - 1

\* A task that uses the test's tx instead of owning a clone of it.
AuxSendersOwnerOnly == IF tpc = "submit" THEN 1 ELSE 0

\* The live senders of the auxiliary channel: the test's tx until drop(tx),
\* and the clone each task owns until its closure has run.
AuxSenders ==
    (IF tpc = "submit" THEN 1 ELSE 0)
    + Cardinality({t \in DOMAIN tstate : tstate[t] \in {"queued", "running"}})

\* How many values the task has sent.
AuxSent(t) == txSent[t]

\* rx.iter().sum() over what rx has yielded.
RECURSIVE SumGot(_)
SumGot(n) == IF n = 0 THEN 0 ELSE rxGot[n] * TaskIndex(n) + SumGot(n - 1)

RxSum == SumGot(AuxLast + 1)

AuxInit ==
    /\ PoolInit(AuxTaskIds)
    /\ tpc = "submit"
    /\ rxGot = [t \in AuxTaskIds |-> 0]
    /\ txSent = [t \in AuxTaskIds |-> 0]
    /\ SpinInit
    /\ CounterInit
    /\ RedisInit

\* thread_pool.execute(move || { tx.send(i).unwrap(); }): the body returns,
\* since rx outlives every task.
AuxSubmit ==
    /\ tpc = "submit"
    /\ Execute(FALSE)

\* tx.send(i).unwrap() in the closure a worker is running: once per run of
\* the body, before it returns.
AuxSend(w) ==
    /\ wstate[w] = "run"
    /\ txSent[wjob[w]] < starts[wjob[w]]
    /\ txSent' = [txSent EXCEPT ![wjob[w]] = @ + 1]
    /\ UNCHANGED <<poolVars, tpc, rxGot, spinVars, ctrVars, redisVars>>

\* The closure returns after its send: its clone of tx is dropped.
AuxFinish(w) ==
    /\ wstate[w] = "run"
    /\ txSent[wjob[w]] = starts[wjob[w]]
    /\ WorkerFinish(w)

\* drop(tx), after the loop.
AuxDropTx ==
    /\ tpc = "submit"
    /\ pc = "idle"
    /\ nextTask \notin DOMAIN tstate
    /\ tpc' = "recv"
    /\ UNCHANGED <<poolVars, rxGot, txSent, spinVars, ctrVars, redisVars>>

\* rx.iter() yields a value that was sent and not yet received.  (The channel
\* yields them in the order sent; every order is admitted here.)
RxRecv(t) ==
    /\ tpc = "recv"
    /\ rxGot[t] < AuxSent(t)
    /\ rxGot' = [rxGot EXCEPT ![t] = @ + 1]
    /\ UNCHANGED <<poolVars, tpc, txSent, spinVars, ctrVars, redisVars>>

\* rx.iter() ends: nothing is buffered and no sender is left; the sum is
\* asserted.
RxEnd ==
    /\ tpc = "recv"
    /\ AuxSenders = 0
    /\ \A t \in AuxTaskIds : rxGot[t] = AuxSent(t)
    /\ tpc' = "asserted"
    /\ UNCHANGED <<poolVars, rxGot, txSent, spinVars, ctrVars, redisVars>>

\* The test returns and thread_pool goes out of scope.
AuxDropPool ==
    /\ tpc = "asserted"
    /\ ShutdownBegin(TRUE)

AuxNext ==
    \/ New(AuxWorkers)
    \/ AuxSubmit
    \/ AuxDropTx
    \/ \E t \in AuxTaskIds : RxRecv(t)
    \/ RxEnd
    \/ AuxDropPool
    \/ JoinOk
    \/ ShutdownReturn
    \/ \E w \in WorkerIds : WorkerRecv(w)
    \/ \E w \in WorkerIds : AuxSend(w)
    \/ \E w \in WorkerIds : AuxFinish(w)
    \/ \E w \in WorkerIds : WorkerExit(w)

AuxSpec == AuxInit /\ [][AuxNext]_vars

\* C15: Completion observed through an auxiliary channel.  When rx.iter() has
\* ended, with no shutdown call made, every submitted task has run, rx has
\* yielded each index 0..10 exactly once, and the values sum to 55.
C15_AuxChannelCompletion ==
    tpc = "asserted" =>
        /\ \A t \in AuxTaskIds : tstate[t] = "done" /\ rxGot[t] = 1
        /\ RxSum = 55

\* rx.iter() has ended while the pool still holds its sender.
C15_Witness ==
    /\ tpc = "asserted"
    /\ sender
    /\ shutdownLog = <<>>
    /\ RxSum = 55

----------------------------------------------------------------------------
(* SpinLock, used as in test_concurrency_spinlock: every thread repeats     *)
(* lock(); counter.fetch_add(1); unlock().                                  *)

\* A lock that sets the flag without looking at what it held.
CasSucceedsAlways(l) == TRUE

\* compare_exchange(false, true) succeeds when the flag holds false.
CasSucceeds(l) == l = FALSE

\* Whether the thread goes round again.
SpinAfterUnlock(i) == IF i < SpinIters THEN "lock" ELSE "done"

\* lock(): the compare_exchange succeeds and lock returns.
SpinLockOk(t) ==
    /\ spc[t] = "lock"
    /\ CasSucceeds(locked)
    /\ locked' = TRUE
    /\ spc' = [spc EXCEPT ![t] = "crit"]
    /\ UNCHANGED <<siter, scount, poolVars, auxVars, ctrVars, redisVars>>

\* lock(): the compare_exchange fails; spin_loop() and try again.
SpinLockSpin(t) ==
    /\ spc[t] = "lock"
    /\ ~CasSucceeds(locked)
    /\ UNCHANGED <<spinVars, poolVars, auxVars, ctrVars, redisVars>>

\* counter.fetch_add(1, Relaxed), between lock() and unlock().
SpinCritical(t) ==
    /\ spc[t] = "crit"
    /\ scount' = scount + 1
    /\ spc' = [spc EXCEPT ![t] = "unlock"]
    /\ UNCHANGED <<locked, siter, poolVars, auxVars, ctrVars, redisVars>>

\* An unlock that leaves the flag set.
UnlockStoreKept == TRUE

\* The value unlock() stores into the flag.
UnlockStore == FALSE

\* unlock(): store(false).
SpinUnlock(t) ==
    /\ spc[t] = "unlock"
    /\ locked' = UnlockStore
    /\ siter' = [siter EXCEPT ![t] = @ + 1]
    /\ spc' = [spc EXCEPT ![t] = SpinAfterUnlock(siter[t] + 1)]
    /\ UNCHANGED <<scount, poolVars, auxVars, ctrVars, redisVars>>

SpinNext ==
    \/ \E t \in SpinThreadIds : SpinLockOk(t)
    \/ \E t \in SpinThreadIds : SpinLockSpin(t)
    \/ \E t \in SpinThreadIds : SpinCritical(t)
    \/ \E t \in SpinThreadIds : SpinUnlock(t)

SpinSpec == Init /\ [][SpinNext]_vars

\* The thread is between a lock() that returned and the end of its unlock().
InCritical(t) == spc[t] \in {"crit", "unlock"}

\* C16: SpinLock mutual exclusion.  Under every interleaving at most one
\* thread is between a returned lock() and its unlock(), the flag is set
\* exactly while one is, and when every thread has finished the counter
\* equals threads x iterations.
C16_SpinLockMutex ==
    /\ Cardinality({t \in SpinThreadIds : InCritical(t)}) <= 1
    /\ locked = (\E t \in SpinThreadIds : InCritical(t))
    /\ (\A t \in SpinThreadIds : spc[t] = "done") =>
          scount = SpinThreads * SpinIters

\* One thread holds the lock in a later iteration while another is spinning
\* in lock().
C16_Witness ==
    \E t, u \in SpinThreadIds :
        /\ t /= u
        /\ InCritical(t)
        /\ siter[t] >= 1
        /\ spc[u] = "lock"

----------------------------------------------------------------------------
(* Counter, used as in test_concurrency_counter: every thread repeats       *)
(* increment().                                                             *)

\* An increment that stores current + 1 whatever the value has become.
CasMatchesAlways(v, cur) == TRUE

\* compare_exchange(current, new) succeeds when the value still holds current.
CasMatches(v, cur) == v = cur

\* Whether the thread calls increment again.
CtrAfterCall(i) == IF i < CtrIters THEN "load" ELSE "done"

\* let mut current = self.value.load(Relaxed);
CtrLoad(t) ==
    /\ cpc[t] = "load"
    /\ ccur' = [ccur EXCEPT ![t] = cvalue]
    /\ cpc' = [cpc EXCEPT ![t] = "cas"]
    /\ UNCHANGED <<cvalue, cdone, poolVars, auxVars, spinVars, redisVars>>

\* Ok(_) => break: the value becomes current + 1 and increment returns.
CtrCasOk(t) ==
    /\ cpc[t] = "cas"
    /\ CasMatches(cvalue, ccur[t])
    /\ cvalue' = ccur[t] + 1
    /\ cdone' = [cdone EXCEPT ![t] = @ + 1]
    /\ cpc' = [cpc EXCEPT ![t] = CtrAfterCall(cdone[t] + 1)]
    /\ UNCHANGED <<ccur, poolVars, auxVars, spinVars, redisVars>>

\* Err(v) => current = v: the loop goes round.
CtrCasErr(t) ==
    /\ cpc[t] = "cas"
    /\ ~CasMatches(cvalue, ccur[t])
    /\ ccur' = [ccur EXCEPT ![t] = cvalue]
    /\ UNCHANGED <<cvalue, cpc, cdone, poolVars, auxVars, spinVars, redisVars>>

\* Counter::get
CounterGet == cvalue

CounterNext ==
    \/ \E t \in CtrThreadIds : CtrLoad(t)
    \/ \E t \in CtrThreadIds : CtrCasOk(t)
    \/ \E t \in CtrThreadIds : CtrCasErr(t)

CounterSpec == Init /\ [][CounterNext]_vars

\* The increment calls completed so far, over the threads 1..n.
RECURSIVE CallsDone(_)
CallsDone(n) == IF n = 0 THEN 0 ELSE cdone[n] + CallsDone(n - 1)

\* C17: Counter has no lost updates.  In every state get() equals the number
\* of increment calls that have returned; the step in which a call returns
\* raises the value by exactly 1; the value never decreases; and when every
\* thread has finished get() equals threads x calls.
C17_CounterNoLostUpdate ==
    /\ [](CounterGet = CallsDone(CtrThreads))
    /\ []((\A t \in CtrThreadIds : cpc[t] = "done") =>
             CounterGet = CtrThreads * CtrIters)
    /\ [][/\ cvalue' >= cvalue
          /\ \A t \in CtrThreadIds :
                cdone'[t] = cdone[t] + 1 => cvalue' = cvalue + 1]_vars

\* A thread is about to compare_exchange with a value another thread's
\* completed increment has made stale.
C17_Witness ==
    \E t, u \in CtrThreadIds :
        /\ t /= u
        /\ cpc[t] = "cas"
        /\ ccur[t] /= cvalue
        /\ cdone[u] >= 1

----------------------------------------------------------------------------
(* mini_redis_server.  A character is its Unicode code point and a string   *)
(* is the sequence of its characters: "get" is <<103, 101, 116>>.           *)

\* The most tokens an input is built from.
MaxTokens == 3

\* u8::to_ascii_lowercase: the letters 'A'..'Z' (65..90) move to 'a'..'z',
\* every other character stays.
AsciiLower(c) == IF c \in 65..90 THEN c + 32 ELSE c

\* char::is_whitespace: the 25 characters with the Unicode property
\* White_Space: U+0009..U+000D, U+0020, U+0085, U+00A0, U+1680,
\* U+2000..U+200A, U+2028, U+2029, U+202F, U+205F, U+3000.
IsWhitespace(c) ==
    \/ c \in 9..13
    \/ c \in {32, 133, 160, 5760}
    \/ c \in 8192..8202
    \/ c \in {8232, 8233, 8239, 8287, 12288}

\* A comparison that tells the cases apart.
EqExact(a, b) == a = b

\* str::eq_ignore_ascii_case.  The code compares the UTF-8 bytes; a byte of a
\* character above U+007F is no ASCII letter and is compared as it is, so the
\* comparison by characters gives the same answer.
EqIgnoreAsciiCase(a, b) ==
    /\ Len(a) = Len(b)
    /\ \A i \in 1..Len(a) : AsciiLower(a[i]) = AsciiLower(b[i])

RECURSIVE TrimStart(_)
TrimStart(str) ==
    IF str /= <<>> /\ IsWhitespace(Head(str)) THEN TrimStart(Tail(str)) ELSE str

RECURSIVE TrimEnd(_)
TrimEnd(str) ==
    IF str /= <<>> /\ IsWhitespace(str[Len(str)])
    THEN TrimEnd(SubSeq(str, 1, Len(str) - 1))
    ELSE str

\* str::trim
Trim(str) == TrimEnd(TrimStart(str))

\* The tokens of str after the tokens acc and the characters cur of the token
\* being read: a run of whitespace ends a token, an empty token is dropped.
RECURSIVE SplitFrom(_, _, _)
SplitFrom(str, cur, acc) ==
    IF str = <<>>
    THEN IF cur = <<>> THEN acc ELSE Append(acc, cur)
    ELSE IF IsWhitespace(Head(str))
         THEN SplitFrom(Tail(str), <<>>, IF cur = <<>> THEN acc ELSE Append(acc, cur))
         ELSE SplitFrom(Tail(str), Append(cur, Head(str)), acc)

\* str::split_whitespace, collected
SplitWhitespace(str) == SplitFrom(str, <<>>, <<>>)

\* "get" and "set"
GetName == <<103, 101, 116>>
SetName == <<115, 101, 116>>

\* enum Command
CmdGet(k) == [type |-> "Get", key |-> k, value |-> <<>>]
CmdSet(k, v) == [type |-> "Set", key |-> k, value |-> v]
CmdUnknown == [type |-> "Unknown", key |-> <<>>, value |-> <<>>]

\* let parts: Vec<_> = input.trim().split_whitespace().collect();
ParseParts(in) == SplitWhitespace(Trim(in))

\* Command::parse
Parse(in) ==
    LET parts == ParseParts(in) IN
    IF Len(parts) = 2 /\ EqIgnoreAsciiCase(parts[1], GetName)
    THEN CmdGet(parts[2])
    ELSE IF Len(parts) = 3 /\ EqIgnoreAsciiCase(parts[1], SetName)
         THEN CmdSet(parts[2], parts[3])
         ELSE CmdUnknown

\* An insert that keeps the value of a key already present.
DbSetIfAbsent(d, k, v) ==
    [x \in DOMAIN d \cup {k} |-> IF x \in DOMAIN d THEN d[x] ELSE v]

\* Db::set: HashMap::insert
DbSet(d, k, v) == [x \in DOMAIN d \cup {k} |-> IF x = k THEN v ELSE d[x]]

\* Db::get is Some for a key present
DbHas(d, k) == k \in DOMAIN d

\* "OK", "(nil)" and "ERR unknown command"
OkStr == <<79, 75>>
NilStr == <<40, 110, 105, 108, 41>>
ErrStr == <<69, 82, 82, 32, 117, 110, 107, 110, 111, 119, 110, 32,
            99, 111, 109, 109, 97, 110, 100>>

\* The String process_command returns.
Response(cmd, d) ==
    IF cmd.type = "Get"
    THEN IF DbHas(d, cmd.key) THEN d[cmd.key] ELSE NilStr
    ELSE IF cmd.type = "Set" THEN OkStr ELSE ErrStr

\* A handler whose GET creates the entry it looks up.
DbAfterGetInserts(cmd, d) ==
    IF cmd.type = "Set" THEN DbSet(d, cmd.key, cmd.value)
    ELSE IF cmd.type = "Get" THEN DbSetIfAbsent(d, cmd.key, <<>>) ELSE d

\* The map after process_command.
DbAfter(cmd, d) ==
    IF cmd.type = "Set" THEN DbSet(d, cmd.key, cmd.value) ELSE d

(* The inputs: tokens joined by whitespace, with whitespace around them. *)

\* get and set in every mix of cases
GetSpellings == {<<a, b, c>> : a \in {103, 71}, b \in {101, 69}, c \in {116, 84}}
SetSpellings == {<<a, b, c>> : a \in {115, 83}, b \in {101, 69}, c \in {116, 84}}

\* The tokens given to Command::parse.
ParseWords ==
    {<<103, 101, 116>>, <<71, 101, 84>>,       \* get, GeT
     <<115, 101, 116>>, <<83, 69, 116>>,       \* set, SEt
     <<102, 111, 111>>, <<70, 111, 111>>,      \* foo, Foo
     <<103, 101>>, <<115, 101, 116, 115>>,     \* ge, sets
     <<233, 8203, 63>>}                        \* U+00E9, U+200B, ?: no whitespace

\* The whitespace of the inputs: between tokens a space, or a space, U+000B
\* and U+2003, or a tab and U+00A0; in front nothing, or a form feed and
\* U+3000; behind nothing, or U+0085, CR and LF.
Separators == {<<32>>, <<32, 11, 8195>>, <<9, 160>>}
Leads == {<<>>, <<12, 12288>>}
Trails == {<<>>, <<133, 13, 10>>}

\* The tokens given to process_command.
DbWords == {<<71, 69, 84>>, <<115, 101, 116>>, <<107>>, <<75>>}    \* GET, set, k, K

TokenLists(W) == UNION {[1..n -> W] : n \in 0..MaxTokens}

RECURSIVE JoinWords(_, _)
JoinWords(ws, sep) ==
    IF ws = <<>> THEN <<>>
    ELSE IF Len(ws) = 1 THEN ws[1]
    ELSE ws[1] \o sep \o JoinWords(Tail(ws), sep)

BuildInput(ws, lead, sep, trail) == lead \o JoinWords(ws, sep) \o trail

\* Command::parse(input)
ParseCall(ws, lead, sep, trail) ==
    /\ rpc = "idle"
    /\ rpc' = "done"
    /\ words' = ws
    /\ input' = BuildInput(ws, lead, sep, trail)
    /\ parsed' = Parse(BuildInput(ws, lead, sep, trail))
    /\ UNCHANGED <<dbVars, poolVars, auxVars, spinVars, ctrVars>>

\* The caller of parse is done with the result.
RedisReturn ==
    /\ rpc = "done"
    /\ rpc' = "idle"
    /\ words' = <<>>
    /\ input' = <<>>
    /\ parsed' = NoCommand
    /\ UNCHANGED <<dbVars, poolVars, auxVars, spinVars, ctrVars>>

\* A caller at rest calls parse on one of the inputs.
ParseSomeInput ==
    /\ rpc = "idle"
    /\ \E ws \in TokenLists(ParseWords), lead \in Leads, sep \in Separators,
          trail \in Trails : ParseCall(ws, lead, sep, trail)

ParseNext ==
    \/ ParseSomeInput
    \/ RedisReturn

ParseSpec == Init /\ [][ParseNext]_vars

(* process_command on a Db shared by tasks.  A call is the steps at which  *)
(* its future can be seen from outside: the call (parse), the poll of       *)
(* read().await or write().await that comes to the lock (it returns the     *)
(* guard at once or queues the caller), and, with the guard, the access to  *)
(* the map up to the return.  The poll that comes to the lock need not be   *)
(* the one of the call: tokio gives each poll of a task a budget of         *)
(* operations, and with the budget used up the await returns Pending before *)
(* it has taken or asked for a permit, so that other tasks run while the    *)
(* call holds nothing and is not queued.  The lock is tokio's RwLock: a     *)
(* read takes one permit and a write all of them, the callers that find too *)
(* few wait in a queue, and permits given back go to the queue in its order *)
(* before any newcomer.                                                     *)

\* The tokens given to process_command: none, or GET or set and then up to
\* two of k and K.
DbInputs ==
    {ws \in UNION {[1..n -> DbWords] : n \in 0..3} :
        /\ ws /= <<>> => ws[1] \in {<<71, 69, 84>>, <<115, 101, 116>>}
        /\ \A i \in 2..Len(ws) : ws[i] \in {<<107>>, <<75>>}}

\* read() finds a permit: no writer holds the lock and no caller is queued.
ReadReady(w, q) == w = 0 /\ q = <<>>

\* write() finds all the permits: nobody holds the lock or is queued.
WriteReady(rs, w, q) == rs = {} /\ w = 0 /\ q = <<>>

\* The lock after permits were given back: the queue is served from its head,
\* readers as long as no writer is met, a writer when no reader is left.
RECURSIVE GrantFrom(_, _, _, _)
GrantFrom(rs, w, q, cmds) ==
    IF q = <<>> \/ w /= 0
    THEN [readers |-> rs, writer |-> w, waiters |-> q]
    ELSE IF cmds[Head(q)].type = "Get"
         THEN GrantFrom(rs \cup {Head(q)}, w, Tail(q), cmds)
         ELSE IF rs = {}
              THEN [readers |-> rs, writer |-> Head(q), waiters |-> Tail(q)]
              ELSE [readers |-> rs, writer |-> w, waiters |-> q]

\* Where the callers are once the lock is lk: a queued caller that was given
\* the lock holds it.
PcAfterGrant(pcs, lk) ==
    [c \in CallerIds |->
        IF pcs[c] = "wait" /\ (c \in lk.readers \/ c = lk.writer)
        THEN "hold" ELSE pcs[c]]

\* The SETs on key k that have returned and may be the most recent.
ReturnedSets(k) == {r \in sets : r.key = k /\ r.st = "returned"}

\* What a GET on k called now may return: the value of a SET on k that no
\* SET made after its return has itself returned, or "(nil)" while no SET on
\* k has returned.
AllowedNow(k) ==
    {r.value : r \in {x \in sets : x.key = k}}
        \cup (IF k \in setKeys THEN {} ELSE {NilStr})

\* The SET caller c is in.
OpenSet(c, cmd) ==
    [who |-> c, key |-> cmd.key, value |-> cmd.value, st |-> "open"]

\* Command::Unknown: the call returns in its first step.
CallUnknown(c, cmd) ==
    /\ cmd.type = "Unknown"
    /\ callPc' = [callPc EXCEPT ![c] = "done"]
    /\ command' = [command EXCEPT ![c] = cmd]
    /\ response' = [response EXCEPT ![c] = Response(cmd, db)]
    /\ db' = DbAfter(cmd, db)
    /\ UNCHANGED <<lockVars, histVars>>

\* Command::Get: db.get(&key) is called; its read().await has not come to
\* the lock yet.
CallGet(c, cmd) ==
    /\ cmd.type = "Get"
    /\ command' = [command EXCEPT ![c] = cmd]
    /\ callPc' = [callPc EXCEPT ![c] = "called"]
    /\ allowed' = [allowed EXCEPT ![c] = AllowedNow(cmd.key)]
    /\ UNCHANGED <<db, lockVars, response, sets, setKeys, before>>

\* Command::Set: db.set(key, value) is called; its write().await has not
\* come to the lock yet.
CallSet(c, cmd) ==
    /\ cmd.type = "Set"
    /\ command' = [command EXCEPT ![c] = cmd]
    /\ callPc' = [callPc EXCEPT ![c] = "called"]
    /\ sets' = sets \cup {OpenSet(c, cmd)}
    /\ before' = [before EXCEPT ![c] = ReturnedSets(cmd.key)]
    /\ allowed' = [d \in CallerIds |->
                      IF /\ callPc[d] \in {"called", "wait", "hold"}
                         /\ command[d].type = "Get"
                         /\ command[d].key = cmd.key
                      THEN allowed[d] \cup {cmd.value} ELSE allowed[d]]
    /\ UNCHANGED <<db, lockVars, response, setKeys>>

\* process_command(&db, input): the call, up to its first await
ProcessCommand(c, ws) ==
    /\ callPc[c] = "idle"
    /\ ncalls < MaxCalls
    /\ ncalls' = ncalls + 1
    /\ \/ CallUnknown(c, Parse(BuildInput(ws, <<>>, <<32>>, <<>>)))
       \/ CallGet(c, Parse(BuildInput(ws, <<>>, <<32>>, <<>>)))
       \/ CallSet(c, Parse(BuildInput(ws, <<>>, <<32>>, <<>>)))
    /\ UNCHANGED <<parseVars, poolVars, auxVars, spinVars, ctrVars>>

\* self.inner.read().await of a GET, polled with budget left: the guard when
\* a permit is there, the queue otherwise.
AcquireRead(c) ==
    /\ command[c].type = "Get"
    /\ IF ReadReady(writer, waiters)
       THEN /\ readers' = readers \cup {c}
            /\ callPc' = [callPc EXCEPT ![c] = "hold"]
            /\ UNCHANGED waiters
       ELSE /\ waiters' = Append(waiters, c)
            /\ callPc' = [callPc EXCEPT ![c] = "wait"]
            /\ UNCHANGED readers
    /\ UNCHANGED writer

\* self.inner.write().await of a SET, polled with budget left: the guard
\* when all the permits are there, the queue otherwise.
AcquireWrite(c) ==
    /\ command[c].type = "Set"
    /\ IF WriteReady(readers, writer, waiters)
       THEN /\ writer' = c
            /\ callPc' = [callPc EXCEPT ![c] = "hold"]
            /\ UNCHANGED waiters
       ELSE /\ waiters' = Append(waiters, c)
            /\ callPc' = [callPc EXCEPT ![c] = "wait"]
            /\ UNCHANGED writer
    /\ UNCHANGED readers

\* The poll of the call that comes to the lock: the one of the call itself
\* or, after a Pending on the used-up budget, a later one.
ProcessAcquire(c) ==
    /\ callPc[c] = "called"
    /\ AcquireRead(c) \/ AcquireWrite(c)
    /\ UNCHANGED <<db, command, response, ncalls, histVars>>
    /\ UNCHANGED <<parseVars, poolVars, auxVars, spinVars, ctrVars>>

\* The SETs once the SET of caller c has returned: those that had returned
\* before it was made are no longer the most recent.
SetsAfterReturn(c) ==
    ((sets \ before[c]) \ {OpenSet(c, command[c])})
        \cup {[OpenSet(c, command[c]) EXCEPT !.st = "returned"]}

\* With the guard: guard.get(key).cloned() or guard.insert(key, value), the
\* guard is dropped and process_command returns its String.
ProcessFinish(c) ==
    /\ callPc[c] = "hold"
    /\ response' = [response EXCEPT ![c] = Response(command[c], db)]
    /\ db' = DbAfter(command[c], db)
    /\ LET lk == GrantFrom(readers \ {c}, IF writer = c THEN 0 ELSE writer,
                           waiters, command)
       IN  /\ readers' = lk.readers
           /\ writer' = lk.writer
           /\ waiters' = lk.waiters
           /\ callPc' = PcAfterGrant([callPc EXCEPT ![c] = "done"], lk)
    /\ IF command[c].type = "Set"
       THEN /\ sets' = SetsAfterReturn(c)
            /\ setKeys' = setKeys \cup {command[c].key}
            /\ before' = [d \in CallerIds |->
                             IF d = c THEN {} ELSE before[d] \ before[c]]
       ELSE UNCHANGED <<sets, setKeys, before>>
    /\ UNCHANGED <<command, ncalls, allowed>>
    /\ UNCHANGED <<parseVars, poolVars, auxVars, spinVars, ctrVars>>

\* The caller is done with the String and may call again.
CallerReturn(c) ==
    /\ callPc[c] = "done"
    /\ callPc' = [callPc EXCEPT ![c] = "idle"]
    /\ command' = [command EXCEPT ![c] = NoCommand]
    /\ response' = [response EXCEPT ![c] = <<>>]
    /\ allowed' = [allowed EXCEPT ![c] = {}]
    /\ UNCHANGED <<db, lockVars, ncalls, sets, setKeys, before>>
    /\ UNCHANGED <<parseVars, poolVars, auxVars, spinVars, ctrVars>>

\* A caller at rest calls process_command on one of the inputs.
ProcessSomeInput ==
    \E c \in CallerIds :
        /\ callPc[c] = "idle"
        /\ ncalls < MaxCalls
        /\ \E ws \in DbInputs : ProcessCommand(c, ws)

DbNext ==
    \/ ProcessSomeInput
    \/ \E c \in CallerIds : ProcessAcquire(c)
    \/ \E c \in CallerIds : ProcessFinish(c)
    \/ \E c \in CallerIds : CallerReturn(c)

DbSpec == Init /\ [][DbNext]_vars

\* The tokens are a SET: three, the first spelling set in any case.
IsSetTokens(ws) == Len(ws) = 3 /\ ws[1] \in SetSpellings

\* The tokens are a GET: two, the first spelling get in any case.
IsGetTokens(ws) == Len(ws) = 2 /\ ws[1] \in GetSpellings

\* At most one writer or any number of readers hold the lock, the queue holds
\* exactly the callers that wait, each once.
LockOK ==
    /\ writer /= 0 => readers = {}
    /\ \A c \in CallerIds :
          /\ callPc[c] = "hold" <=> (c \in readers \/ c = writer)
          /\ callPc[c] = "wait" <=> (\E i \in DOMAIN waiters : waiters[i] = c)
    /\ Len(waiters) = Cardinality({waiters[i] : i \in DOMAIN waiters})

\* The step is one of caller c's own call.
StepOf(c) ==
    \/ callPc[c] = "idle" /\ callPc'[c] /= "idle"
    \/ callPc[c] = "called" /\ callPc'[c] /= "called"
    \/ callPc[c] = "hold" /\ callPc'[c] = "done"

\* C18: Key-value round trip.  On a Db that tasks share, a SET k v returns
\* "OK"; a GET k returns the value of a most recent SET on k (one that was
\* made before the GET returned and that no SET made after its return and
\* returned before the GET was made has replaced), or "(nil)" only while no
\* SET on k had returned when the GET was made; when no call is under way
\* and one SET on k is the most recent, the map holds its value for k, which
\* is what a GET made then returns.  A step changes the map
\* only as the SET k v that takes it says: k gets v, no key is removed and
\* every other key keeps its value.
C18_KeyValueRoundTrip ==
    /\ [](\A c \in CallerIds :
             callPc[c] = "done" =>
                /\ command[c].type = "Set" => response[c] = OkStr
                /\ command[c].type = "Get" => response[c] \in allowed[c])
    /\ []((\A c \in CallerIds : callPc[c] \in {"idle", "done"}) =>
             \A r \in sets :
                (\A x \in sets : x.key = r.key => x = r) =>
                    (r.key \in DOMAIN db /\ db[r.key] = r.value))
    /\ [][\A k \in DOMAIN db \cup DOMAIN db' :
             /\ k \in DOMAIN db'
             /\ (k \notin DOMAIN db \/ db'[k] /= db[k]) =>
                   \E c \in CallerIds :
                      /\ StepOf(c)
                      /\ command[c] = CmdSet(k, db'[k])]_vars

\* A GET on k returned K, the value of a SET k K of another caller that was
\* under way while the GET was, where a SET of the value k had returned
\* before.
C18_Witness ==
    \E c \in CallerIds :
        /\ callPc[c] = "done"
        /\ command[c] = CmdGet(<<107>>)
        /\ response[c] = <<75>>
        /\ allowed[c] = {<<107>>, <<75>>}
        /\ <<107>> \in setKeys
        /\ \E d \in CallerIds \ {c} :
              sets = {[who |-> d, key |-> <<107>>, value |-> <<75>>,
                       st |-> "returned"]}

\* The Command the tokens stand for.
ExpectedCommand(ws) ==
    IF IsGetTokens(ws) THEN CmdGet(ws[2])
    ELSE IF IsSetTokens(ws) THEN CmdSet(ws[2], ws[3])
    ELSE CmdUnknown

\* C19: Command parsing.  The parts parse works on are the tokens the input
\* holds between its runs of whitespace; two tokens led by get in any case
\* give Get(key), three led by set in any case give Set(key, value), with key
\* and value as written; every other input gives Unknown.
C19_CommandParsing ==
    rpc = "done" =>
        /\ ParseParts(input) = words
        /\ parsed = ExpectedCommand(words)

\* A SET spelt in mixed case, with runs of whitespace and padding, was parsed
\* and kept the case of its key.
C19_Witness ==
    /\ rpc = "done"
    /\ parsed = CmdSet(<<70, 111, 111>>, <<102, 111, 111>>)
    /\ words[1] = <<83, 69, 116>>
    /\ Len(input) > Len(JoinWords(words, <<32>>)) + 2

\* C20: Unknown commands are rejected without effect.  A call whose input
\* parse maps to Unknown returns "ERR unknown command" in its first step,
\* without going to the lock; no step of such a call and no step of a GET
\* changes the map, whatever the other callers do meanwhile.
C20_UnknownRejected ==
    /\ [](\A c \in CallerIds :
             command[c].type = "Unknown" =>
                (callPc[c] = "done" /\ response[c] = ErrStr))
    /\ [][\A c \in CallerIds :
             (StepOf(c) /\ command'[c].type \in {"Unknown", "Get"}) =>
                 db' = db]_vars

\* An unknown command was answered on a map that holds a key, while another
\* caller holds the lock for a SET.
C20_Witness ==
    \E c, d \in CallerIds :
        /\ callPc[c] = "done"
        /\ command[c] = CmdUnknown
        /\ response[c] = ErrStr
        /\ DOMAIN db /= {}
        /\ callPc[d] = "hold"
        /\ command[d].type = "Set"

----------------------------------------------------------------------------
(* Further properties of the pool *)

\* A shutdown call, explicit or from drop, has just ended.
ShutdownEnded ==
    /\ lastOp \in {"shutdown", "drop"}
    /\ lastOutcome \in {"returned", "panicked"}

\* C21: Shutdown joins every worker.  Whenever a shutdown call has ended, by
\* returning or by panicking, every worker thread spawned by new has been
\* joined and is Terminated; none is left running or detached.
C21_ShutdownJoinsAll ==
    ShutdownEnded => \A w \in Spawned : Terminated(w) /\ w \in joined

\* C22: Closure is reported only after drain.  A worker's recv can return the
\* closed signal only in a state where the queue is empty and no sender
\* exists; the step in which a worker ends by the closed signal starts in such
\* a state; and while a worker that ended this way exists the queue is empty.
C22_ClosedOnlyAfterDrain ==
    /\ [](\A w \in Spawned :
             ENABLED WorkerExit(w) => (queue = <<>> /\ senders = 0 /\ ~sender))
    /\ [](\A w \in Spawned : wstate[w] = "exited" => queue = <<>>)
    /\ [][\A w \in WorkerIds :
             (wstate[w] = "recv" /\ wstate'[w] = "exited") =>
                 (queue = <<>> /\ senders = 0)]_vars

\* Inside a shutdown of a pool of two that had been given every task of the
\* run, one worker has ended by the closed signal while the other is still
\* running the last task.
C22_Witness ==
    /\ pc = "joining"
    /\ num_threads = 2
    /\ \E w \in Spawned : wstate[w] = "exited"
    /\ \E w \in Spawned : wstate[w] = "run"
    /\ Cardinality({t \in TaskIds : tstate[t] = "done"}) = MaxTasks - 1

\* C23: Worker lifecycle.  Every spawned worker is Running or Terminated; a
\* Terminated worker holds no task, can take no step and stays as it is; and a
\* worker leaves Running only by the panic of the body it runs or, from recv,
\* by the closed signal (empty queue, no sender).
C23_WorkerLifecycle ==
    /\ [](\A w \in Spawned : Running(w) \/ Terminated(w))
    /\ [](\A w \in Spawned :
             Terminated(w) => (wjob[w] = 0 /\ ~ENABLED WorkerStep(w)))
    /\ [][\A w \in WorkerIds :
             /\ Terminated(w) => (wstate'[w] = wstate[w] /\ wjob'[w] = 0)
             /\ (Running(w) /\ ~Running(w)') =>
                   \/ /\ wstate[w] = "run"
                      /\ panics[wjob[w]]
                      /\ wstate'[w] = "panicked"
                   \/ /\ wstate[w] = "recv"
                      /\ queue = <<>>
                      /\ senders = 0
                      /\ wstate'[w] = "exited"]_vars

\* Both workers of a pool ended by the closed signal after running tasks, no
\* task failed, and an execute was called afterwards.
C23_Witness ==
    /\ num_threads = 2
    /\ \A w \in Spawned : wstate[w] = "exited"
    /\ \E t \in TaskIds : tstate[t] = "done"
    /\ \A t \in TaskIds : tstate[t] /= "panicked"
    /\ lastOp = "execute"

\* C24: Teardown ordering.  Whenever the owner is inside shutdown's join
\* loop, and in every step that completes a join, the pool's sender has been
\* taken and dropped and the channel has no sender; so a worker blocked in
\* recv while a join waits can always take a step: receive a buffered task or
\* get the closed signal.
C24_TeardownOrdering ==
    /\ [](pc = "joining" =>
             /\ ~sender
             /\ senders = 0
             /\ \A w \in Spawned :
                   wstate[w] = "recv" =>
                       (ENABLED WorkerRecv(w) \/ ENABLED WorkerExit(w)))
    /\ [][joined' /= joined => (~sender /\ senders = 0)]_vars

\* Shutdown has released the sender and waits in its first join on a worker
\* that is blocked in recv on the empty queue.
C24_Witness ==
    /\ pc = "joining"
    /\ num_threads = 2
    /\ Len(workers) = 2
    /\ wstate[Head(workers)] = "recv"
    /\ queue = <<>>
    /\ joined = {}

\* C25: Fatal on enqueue failure.  An execute call made while the pool holds
\* its sender and the channel has no receiver ends by panicking and leaves the
\* queue as it was; the task it was given is never in the queue and never
\* started.
C25_FatalOnEnqueueFailure ==
    /\ [](\A t \in TaskIds : tstate[t] = "rejected" =>
             /\ starts[t] = 0
             /\ ~InQueue(t)
             /\ \A w \in WorkerIds : wjob[w] /= t)
    /\ [][(sender /\ receivers = 0 /\ nextTask' = nextTask + 1) =>
             /\ lastOp' = "execute"
             /\ lastOutcome' = "panicked"
             /\ queue' = queue
             /\ tstate'[nextTask] = "rejected"]_vars

\* On a pool built with a worker and not shut down, the worker died and the
\* next execute ended by panicking.
C25_Witness ==
    /\ num_threads >= 1
    /\ sender
    /\ receivers = 0
    /\ lastOp = "execute"
    /\ lastOutcome = "panicked"
    /\ tstate[nextTask - 1] = "rejected"

\* C26: Submit never blocks.  While the pool holds its sender the owner can
\* call execute in every state, whatever the queue holds and whatever the
\* workers are doing; the call ends in its own step, in which no worker moves
\* and no body is entered; and when a receiver exists it returns with the task
\* appended to the queue, not yet started.
C26_SubmitNeverBlocks ==
    /\ []((pc = "idle" /\ sender /\ nextTask \in TaskIds) =>
             \A p \in BOOLEAN : ENABLED Execute(p))
    /\ [][(sender /\ nextTask' = nextTask + 1) =>
             /\ lastOp' = "execute"
             /\ wstate' = wstate
             /\ wjob' = wjob
             /\ starts' = starts
             /\ receivers > 0 =>
                   /\ lastOutcome' = "returned"
                   /\ queue' = Append(queue, nextTask)
                   /\ tstate'[nextTask] = "queued"]_vars

\* An execute returned on an open pool while every worker was busy and a task
\* was already waiting in the queue.
C26_Witness ==
    /\ sender
    /\ num_threads = 2
    /\ \A w \in Spawned : wstate[w] = "run"
    /\ lastOp = "execute"
    /\ lastOutcome = "returned"
    /\ tstate[nextTask - 1] = "queued"
    /\ Len(queue) >= 1

\* C27: No resources after shutdown.  Once a shutdown call has returned, in
\* every later state the pool holds no sender and no worker handle and the
\* queue is empty.
C27_NoResourcesAfterShutdown ==
    SomeShutdownReturned =>
        /\ ~sender
        /\ workers = <<>>
        /\ queue = <<>>

\* No shutdown, explicit or from drop, has begun on the pool.
ShutdownNotBegun == pc = "idle" /\ shutdownLog = <<>>

\* C28: Single producing endpoint.  The channel never has more than one
\* sender, and it has one exactly when the pool holds it, which is exactly
\* while the pool exists and no shutdown has begun; an execute call leaves the
\* number of senders as it was; once released the sender never comes back; and
\* from then on an empty queue stays empty, so recv reports closure for good.
C28_SingleProducer ==
    /\ [](senders <= 1)
    /\ [](senders = IF sender THEN 1 ELSE 0)
    /\ [](pc /= "start" => (sender <=> ShutdownNotBegun))
    /\ [][nextTask' = nextTask + 1 =>
             (senders' = senders /\ sender' = sender)]_vars
    /\ [][(pc /= "start" /\ senders = 0) =>
             /\ senders' = 0
             /\ queue = <<>> => (queue' = <<>> /\ RecvClosed(queue', senders'))]_vars

\* After a shutdown that ran a task, an execute was called on the pool: the
\* channel has no sender and the queue is empty.
C28_Witness ==
    /\ pc = "idle"
    /\ num_threads >= 1
    /\ ~sender
    /\ senders = 0
    /\ queue = <<>>
    /\ lastOp = "execute"
    /\ \E t \in TaskIds : tstate[t] = "done"

\* C29: Zero workers.  New(0) can be taken and returns; the pool it yields has
\* no worker handle, no worker thread and no receiver; every execute call that
\* finds the sender in place (made before shutdown) ends by panicking with the
\* task not enqueued; the queue stays empty and no body is ever entered; and a
\* shutdown or drop finds nothing to join, can return at once and never
\* panics.
C29_ZeroWorkers ==
    /\ pc = "start" => ENABLED New(0)
    /\ (pc /= "start" /\ num_threads = 0) =>
          /\ lastOp = "new" => lastOutcome = "returned"
          /\ workers = <<>>
          /\ receivers = 0
          /\ \A w \in WorkerIds : wstate[w] = "unspawned"
          /\ queue = <<>>
          /\ \A t \in TaskIds :
                starts[t] = 0 /\ tstate[t] \in {"new", "rejected", "ignored"}
          /\ (lastOp = "execute" /\ sender) =>
                (lastOutcome = "panicked" /\ tstate[nextTask - 1] = "rejected")
          /\ pc = "joining" => ENABLED ShutdownReturn
          /\ NoShutdownPanicked

\* A pool of no workers was given tasks, shut down and dropped; both calls
\* returned.
C29_Witness ==
    /\ num_threads = 0
    /\ pc = "dropped"
    /\ shutdownLog = <<"returned", "returned">>
    /\ Cardinality({t \in TaskIds : tstate[t] = "rejected"}) >= 2

----------------------------------------------------------------------------
(* SpinLock under fair scheduling, for threads that use it any number of    *)
(* times: a thread calls lock(), is in its critical section, calls unlock() *)
(* and then calls lock() again or ends.  The threads of                     *)
(* test_concurrency_spinlock are those that end after their last round; a   *)
(* thread that never ends is one that goes on serving.  The counts stop at  *)
(* the values SpinSpec reaches, so that the states are finitely many.       *)

\* The count after one more, held at its cap.
CountUpTo(n, cap) == IF n < cap THEN n + 1 ELSE n

\* The critical section.
SpinCriticalAny(t) ==
    /\ spc[t] = "crit"
    /\ scount' = CountUpTo(scount, SpinThreads * SpinIters)
    /\ spc' = [spc EXCEPT ![t] = "unlock"]
    /\ UNCHANGED <<locked, siter, poolVars, auxVars, ctrVars, redisVars>>

\* unlock(), after which the thread calls lock() again.
SpinUnlockAgain(t) ==
    /\ spc[t] = "unlock"
    /\ locked' = UnlockStore
    /\ siter' = [siter EXCEPT ![t] = CountUpTo(siter[t], SpinIters)]
    /\ spc' = [spc EXCEPT ![t] = "lock"]
    /\ UNCHANGED <<scount, poolVars, auxVars, ctrVars, redisVars>>

\* unlock(), after which the thread ends.
SpinUnlockEnd(t) ==
    /\ spc[t] = "unlock"
    /\ locked' = UnlockStore
    /\ siter' = [siter EXCEPT ![t] = CountUpTo(siter[t], SpinIters)]
    /\ spc' = [spc EXCEPT ![t] = "done"]
    /\ UNCHANGED <<scount, poolVars, auxVars, ctrVars, redisVars>>

\* The next step of thread t.
SpinThreadStep(t) ==
    \/ SpinLockOk(t)
    \/ SpinLockSpin(t)
    \/ SpinCriticalAny(t)
    \/ SpinUnlockAgain(t)
    \/ SpinUnlockEnd(t)

SpinAnyNext ==
    \/ \E t \in SpinThreadIds : SpinLockOk(t)
    \/ \E t \in SpinThreadIds : SpinLockSpin(t)
    \/ \E t \in SpinThreadIds : SpinCriticalAny(t)
    \/ \E t \in SpinThreadIds : SpinUnlockAgain(t)
    \/ \E t \in SpinThreadIds : SpinUnlockEnd(t)

\* The scheduler runs every thread again and again: a thread in its critical
\* section goes on to unlock() and a thread in unlock() completes it.  A
\* thread inside lock() changes the state only when its compare_exchange
\* finds the flag clear.
SpinFairness == \A t \in SpinThreadIds : WF_vars(SpinThreadStep(t))

SpinLiveSpec == Init /\ [][SpinAnyNext]_vars /\ SpinFairness

\* C30 as stated: SpinLock acquisition progress.  Under fair scheduling, with
\* every holder going on to unlock(), every thread that is inside lock()
\* eventually returns from it holding the lock.
C30_LockProgress ==
    \A t \in SpinThreadIds : (spc[t] = "lock") ~> (spc[t] = "crit")

\* C30, amended: under fair scheduling, with every holder going on to
\* unlock(), whenever some thread is inside lock() some thread eventually
\* returns from lock() holding the lock; and a thread stays inside lock() for
\* ever only if other threads go on acquiring the lock again and again, so
\* that it returns from lock() once the others have ended.
C30_LockProgressAmended ==
    /\ (\E t \in SpinThreadIds : spc[t] = "lock")
           ~> (\E t \in SpinThreadIds : spc[t] = "crit")
    /\ \A t \in SpinThreadIds :
           <>[](spc[t] = "lock") =>
               []<>(\E u \in SpinThreadIds \ {t} : spc[u] = "crit")
    /\ \A t \in SpinThreadIds :
           (spc[t] = "lock"
              /\ \A u \in SpinThreadIds \ {t} : spc[u] = "done")
                 ~> (spc[t] = "crit")

\* A thread is still inside its first lock() while another thread, which has
\* taken the lock as often as the count records, holds it once more.
C30_Witness ==
    \E t, u \in SpinThreadIds :
        /\ t /= u
        /\ spc[t] = "lock"
        /\ siter[t] = 0
        /\ spc[u] = "crit"
        /\ siter[u] = SpinIters
        /\ locked

=============================================================================
